---------------------------- MODULE Spec2Model ----------------------------
(***************************************************************************)
(* A state-machine model of pvwatts.py, a Streamlit script.  Streamlit     *)
(* executes the script top to bottom once per user interaction ("a run");  *)
(* st.session_state survives from run to run, every other name is         *)
(* re-created by the run.  pc is the position of the current run in the    *)
(* script, "idle" once the run has ended and the view is on screen.        *)
(*                                                                         *)
(* Numbers.  A Python float or int is modelled as an exact fraction        *)
(* [n |-> numerator, d |-> denominator] with d > 0, so that 5.0 is         *)
(* Rat(50, 10) and 0.4 is Rat(4, 10).  Fractions are compared by value     *)
(* (RatEq), never by representation.                                       *)
(***************************************************************************)
EXTENDS Integers, Sequences, FiniteSets, TLC

VARIABLES
    session_state,   \* st.session_state: a dict, empty when the session is created
    pc,              \* position of the current run in the script
    trigger,         \* what started the current run
    password,        \* value of the "Enter password" text input
    location_mode,   \* value of the location radio
    address,         \* value of the "Enter Address" text input
    lat, lon,        \* None or <<fraction>>
    map_ready,
    geo_response,    \* None or the geocoding response
    inputs,          \* None or the values of the PV parameter widgets
    params,          \* None or the request parameters sent to PVWatts
    response,        \* None or the PVWatts response
    view,            \* what the run has rendered
    geoCalls,        \* requests.get calls to the geocoding service in this run
    estCalls,        \* requests.get calls to the estimation service in this run
    jsonCalls        \* response.json() calls on the estimation response in this run

vars == <<session_state, pc, trigger, password, location_mode, address, lat, lon,
          map_ready, geo_response, inputs, params, response, view, geoCalls, estCalls,
          jsonCalls>>

-----------------------------------------------------------------------------
(* Python values *)

\* Python's None, and Optional values: None or a one-element tuple.
None == << >>
Some(v) == <<v>>

\* A JSON null inside a decoded body.
Null == [json_null |-> TRUE]

\* The empty dict {}.
EmptyDict == [k \in {} |-> 0]

\* dict.get(key, default)
Get(dict, key, default) == IF key \in DOMAIN dict THEN dict[key] ELSE default

\* bool(v) of a decoded JSON value that is null, a dict or a list.
Truthy(v) == v # Null /\ DOMAIN v # {}

Rat(n, d) == [n |-> n, d |-> d]

RatEq(a, b) == a.n * b.d = b.n * a.d

RatLess(a, b) == a.n * b.d < b.n * a.d

\* a / b for b > 0
RatDiv(a, b) == [n |-> a.n * b.d, d |-> a.d * b.n]

RECURSIVE Pow10(_)
Pow10(k) == IF k = 0 THEN 1 ELSE 10 * Pow10(k - 1)

\* round(q, k): the nearest multiple of 10^-k.  A float that lies exactly
\* halfway goes to the even neighbour; the values of the model never do.
RoundRat(q, k) ==
    LET scaled == q.n * Pow10(k)
        lo     == scaled \div q.d
        rem    == scaled % q.d
        up     == \/ 2 * rem > q.d
                  \/ (2 * rem = q.d /\ lo % 2 = 1)
    IN  Rat(IF up THEN lo + 1 ELSE lo, Pow10(k))

-----------------------------------------------------------------------------
(* datetime and timedelta *)

IsLeap(y) == (y % 4 = 0) /\ ((y % 100 # 0) \/ (y % 400 = 0))

DaysInMonth(y, m) ==
    IF m = 2 THEN (IF IsLeap(y) THEN 29 ELSE 28)
    ELSE IF m \in {4, 6, 9, 11} THEN 30 ELSE 31

DaysInYear(y) == IF IsLeap(y) THEN 366 ELSE 365

RECURSIVE DaysBeforeMonth(_, _)
DaysBeforeMonth(y, m) ==
    IF m = 1 THEN 0 ELSE DaysBeforeMonth(y, m - 1) + DaysInMonth(y, m - 1)

\* datetime(year, month, day): midnight of that day.
Datetime(y, m, d) == [year |-> y, month |-> m, day |-> d, hour |-> 0]

\* The date that is the (n+1)-th day of year y, n >= 0, carrying into later years.
RECURSIVE YearDayToDate(_, _)
YearDayToDate(y, n) ==
    IF n >= DaysInYear(y) THEN YearDayToDate(y + 1, n - DaysInYear(y))
    ELSE LET m == CHOOSE mm \in 1..12 :
                      /\ DaysBeforeMonth(y, mm) <= n
                      /\ n < DaysBeforeMonth(y, mm) + DaysInMonth(y, mm)
         IN  [year |-> y, month |-> m, day |-> n - DaysBeforeMonth(y, m) + 1]

\* dt + timedelta(hours=h), h >= 0: the hours carry into days, months and years.
DatetimePlusHours(dt, h) ==
    LET total == dt.hour + h
        yday  == DaysBeforeMonth(dt.year, dt.month) + (dt.day - 1) + (total \div 24)
        date  == YearDayToDate(dt.year, yday)
    IN  [year |-> date.year, month |-> date.month, day |-> date.day,
         hour |-> total % 24]

-----------------------------------------------------------------------------
(* What the user and the two services can supply *)

\* The hourly series of the model have every length up to MaxHours, which
\* passes the end of the first day, and the one length LongHours, which passes
\* the end of January.
MaxHours == 26
LongHours == 745

ConfiguredPassword == "pushpower123"

Passwords == {"", "letmein", ConfiguredPassword}

LocationModes == {"Enter Coordinates", "Search by Address"}

Addresses == {"", "London, UK"}

\* Values of the two coordinate number inputs (defaults 51.5074 and -0.1278).
Latitudes  == {Rat(515074, 10000), Rat(-338688, 10000)}
Longitudes == {Rat(-1278, 10000), Rat(1512093, 10000)}

\* A decimal numeral as the geocoder writes it, e.g. "51.5074456", or some
\* other text.
Numeral(neg, whole, frac, digits) ==
    [neg |-> neg, whole |-> whole, frac |-> frac, digits |-> digits]
NotANumeral == [text |-> "n/a"]

FirstLondon ==
    [lat |-> Numeral(FALSE, 51, 5074456, 7), lon |-> Numeral(TRUE, 0, 1277653, 7),
     display_name |-> "London, Greater London, England, United Kingdom"]

GeoMatches ==
    { FirstLondon,
      [lat |-> Numeral(FALSE, 46, 3144754, 7), lon |-> Numeral(FALSE, 11, 480288, 7),
       display_name |-> "London, Trentino-Alto Adige, Italia"],
      [lat |-> Numeral(FALSE, 51, 5, 1), lon |-> NotANumeral,
       display_name |-> "London"] }

\* Responses of the geocoding service: status, whether the body is JSON, and
\* the decoded body (the list of matches).
GeoResponses ==
    {[status_code |-> 200, is_json |-> TRUE, data |-> << >>]}
    \cup {[status_code |-> 200, is_json |-> TRUE, data |-> <<m>>] : m \in GeoMatches}
    \cup {[status_code |-> 200, is_json |-> TRUE, data |-> <<m, FirstLondon>>] :
              m \in GeoMatches \ {FirstLondon}}
    \cup {[status_code |-> 200, is_json |-> FALSE, data |-> << >>]}
    \cup {[status_code |-> s, is_json |-> FALSE, data |-> << >>] : s \in {403, 503}}

\* Values of the sidebar widgets, each inside the bounds of its widget.
DefaultParameters ==
    [panel_type |-> 0, system_loss_pct |-> 14, mounting |-> 0, tilt |-> 35,
     azimuth |-> 180, inverter_ratio |-> Rat(10, 10), dataset |-> "nsrdb",
     radius |-> 25, inv |-> Rat(960, 10)]

ParameterChoices ==
    [panel_type |-> {1, 2}, system_loss_pct |-> {0, 30}, mounting |-> {1, 4},
     tilt |-> {0, 60}, azimuth |-> {0, 360},
     inverter_ratio |-> {Rat(1, 10), Rat(20, 10)},
     dataset |-> {"tmy2", "tmy3", "intl"}, radius |-> {1, 100},
     inv |-> {Rat(975, 10), Rat(995, 10)}]

\* The defaults, every setting that moves one widget off its default, and the
\* two settings with every widget at its lowest and at its highest choice.
ParameterSets ==
    {DefaultParameters}
    \cup UNION {{[DefaultParameters EXCEPT ![f] = v] : v \in ParameterChoices[f]} :
                    f \in DOMAIN ParameterChoices}
    \cup {[panel_type |-> 1, system_loss_pct |-> 0, mounting |-> 1, tilt |-> 0,
           azimuth |-> 0, inverter_ratio |-> Rat(1, 10), dataset |-> "tmy2",
           radius |-> 1, inv |-> Rat(975, 10)],
          [panel_type |-> 2, system_loss_pct |-> 30, mounting |-> 4, tilt |-> 60,
           azimuth |-> 360, inverter_ratio |-> Rat(20, 10), dataset |-> "intl",
           radius |-> 100, inv |-> Rat(995, 10)]}

\* Installed PV power, 0.1 to 10000.0, default 5.0.
PeakPowers == {Rat(1, 10), Rat(33, 10), Rat(50, 10), Rat(100000, 10)}

Intervals == {"monthly", "hourly"}

StationInfos ==
    { EmptyDict,
      [time_zone |-> 1],
      [city |-> "", state |-> "Colorado", lat |-> "39.74", lon |-> "-104.98",
       elev |-> "1636.0", time_zone |-> -7, solar_resource_file |-> "W10498N3974.csv",
       distance |-> "1205"] }

MonthlySeries ==
    { <<Rat(251, 1), Rat(310, 1), Rat(452, 1), Rat(540, 1), Rat(611, 1), Rat(640, 1),
        Rat(655, 1), Rat(602, 1), Rat(498, 1), Rat(389, 1), Rat(270, 1), Rat(221, 1)>>,
      <<Rat(47383, 100), Rat(45727, 100), Rat(61186, 100), Rat(62560, 100),
        Rat(64533, 100), Rat(62139, 100), Rat(63923, 100), Rat(63124, 100),
        Rat(59523, 100), Rat(54585, 100), Rat(46375, 100), Rat(44083, 100)>>,
      <<Rat(0, 1), Rat(0, 1), Rat(0, 1), Rat(0, 1), Rat(0, 1), Rat(1, 1),
        Rat(7, 4), Rat(0, 1), Rat(0, 1), Rat(0, 1), Rat(0, 1), Rat(0, 1)>> }

\* Hourly production in Wh of hour i (from 0) of the series: zero at night,
\* a bell over the day.
HourlyWh(i, peak) ==
    LET h == i % 24
    IN  IF h < 6 \/ h > 18 THEN Rat(0, 1) ELSE Rat((h - 5) * (19 - h) * peak, 10)

HourlySeries(n, peak) == [i \in 1..n |-> HourlyWh(i - 1, peak)]

\* The outputs block of a successful simulation, by requested timeframe.
OutputsFor(interval) ==
    IF interval = "monthly"
    THEN {[ac_annual |-> a, capacity_factor |-> Rat(14837, 1000), ac_monthly |-> s] :
              a \in {Rat(6500, 1), Rat(72514, 10)}, s \in MonthlySeries}
         \cup {[ac_monthly |-> s] : s \in MonthlySeries}
         \cup {[ac_annual |-> Rat(6500, 1), capacity_factor |-> Rat(14837, 1000)],
               [ac_annual |-> Rat(6500, 1),
                ac_monthly |-> <<Rat(251, 1), Rat(310, 1)>>]}
    ELSE {[ac_annual |-> Rat(6500, 1), capacity_factor |-> Rat(14837, 1000),
           ac |-> HourlySeries(n, 831), dc |-> HourlySeries(n, 869)] :
              n \in (0..MaxHours) \cup {LongHours}}
         \cup {[ac_annual |-> Rat(0, 1), capacity_factor |-> Rat(0, 1)]}

\* Decoded bodies of a 200 response.
EstimationBodies(interval) ==
    { EmptyDict,
      [station_info |-> [time_zone |-> 1]],
      [outputs |-> EmptyDict],
      [outputs |-> Null, station_info |-> EmptyDict],
      [outputs |-> << >>, errors |-> <<"no data">>] }
    \cup {[outputs |-> o] : o \in OutputsFor(interval)}
    \cup {[outputs |-> o, station_info |-> st] :
              o \in OutputsFor(interval), st \in StationInfos \ {EmptyDict}}

\* Responses of the estimation service: status, raw body text, whether the
\* body is JSON, and the decoded body.
EstimationResponses(interval) ==
    {[status_code |-> 200, text |-> "json", is_json |-> TRUE, data |-> d] :
         d \in EstimationBodies(interval)}
    \cup {[status_code |-> 200, text |-> "<html>", is_json |-> FALSE, data |-> EmptyDict]}
    \cup {[status_code |-> s, text |-> t, is_json |-> j, data |-> EmptyDict] :
              s \in {204, 422, 429, 500},
              t \in {"", "{\"errors\":[\"bad request\"]}"},
              j \in {FALSE}}

-----------------------------------------------------------------------------
(* The script's expressions *)

Authenticated ==
    "authenticated" \in DOMAIN session_state /\ session_state["authenticated"]

\* password == "pushpower123"
CheckPassword(pw) == pw = ConfiguredPassword

\* float(s) of a numeral; float raises ValueError on any other text.
IsNumeral(s) == "digits" \in DOMAIN s
ParseFloat(s) ==
    LET mag == s.whole * Pow10(s.digits) + s.frac
    IN  Rat(IF s.neg THEN 0 - mag ELSE mag, Pow10(s.digits))

\* ShouldGeocode when the lookup is not confined to the address mode.
ShouldGeocodeAnyMode(mode, addr) == TRUE

\* Whether the address branch sends the geocoding request.
ShouldGeocode(mode, addr) == mode = "Search by Address" /\ addr # ""

\* The handling of the geocoding response: the try block takes the first match,
\* and a ValueError of json() or of either float() ends it where it is raised.
GeocodeOutcome(geo) ==
    LET nothing == [lat |-> None, lon |-> None, map_ready |-> FALSE,
                    found |-> None, geo_error |-> None, messages |-> {}]
    IN  IF geo.status_code = 200
        THEN IF ~geo.is_json
             THEN [nothing EXCEPT !.messages = {"Failed to decode location data."}]
             ELSE IF Len(geo.data) > 0
             THEN LET first == geo.data[1]
                  IN  IF ~IsNumeral(first.lat)
                      THEN [nothing EXCEPT
                                !.messages = {"Failed to decode location data."}]
                      ELSE IF ~IsNumeral(first.lon)
                      THEN [nothing EXCEPT
                                !.lat = Some(ParseFloat(first.lat)),
                                !.messages = {"Failed to decode location data."}]
                      ELSE [nothing EXCEPT
                                !.lat = Some(ParseFloat(first.lat)),
                                !.lon = Some(ParseFloat(first.lon)),
                                !.found = Some(first.display_name),
                                !.map_ready = TRUE]
             ELSE [nothing EXCEPT !.messages = {"Address not found."}]
        ELSE [nothing EXCEPT !.geo_error = Some(geo.status_code)]

\* RunGuard without the two location tests.
RunGuardButtonOnly(clicked, la, lo) == clicked

\* st.button("Run Simulation") and lat is not None and lon is not None
RunGuard(clicked, la, lo) == clicked /\ la # None /\ lo # None

ApiKey == "beHYbrG2eqslmF6pvTx5fOH4WsabCnB3hUedxanX"

\* BuildParams with tilt and azimuth exchanged.
BuildParamsSwapped(la, lo, inp) ==
    [api_key |-> ApiKey, lat |-> la, lon |-> lo,
     system_capacity |-> inp.peak_power_kw, module_type |-> inp.panel_type,
     losses |-> inp.system_loss_pct, array_type |-> inp.mounting,
     tilt |-> inp.azimuth, azimuth |-> inp.tilt,
     dc_ac_ratio |-> inp.inverter_ratio, timeframe |-> inp.interval,
     format |-> "json", dataset |-> inp.dataset, radius |-> inp.radius,
     gcr |-> Rat(4, 10), inv_eff |-> inp.inv, use_wf_albedo |-> 1]

\* The request parameters.
BuildParams(la, lo, inp) ==
    [api_key |-> ApiKey,
     lat |-> la,
     lon |-> lo,
     system_capacity |-> inp.peak_power_kw,
     module_type |-> inp.panel_type,
     losses |-> inp.system_loss_pct,
     array_type |-> inp.mounting,
     tilt |-> inp.tilt,
     azimuth |-> inp.azimuth,
     dc_ac_ratio |-> inp.inverter_ratio,
     timeframe |-> inp.interval,
     format |-> "json",
     dataset |-> inp.dataset,
     radius |-> inp.radius,
     gcr |-> Rat(4, 10),
     inv_eff |-> inp.inv,
     use_wf_albedo |-> 1]

\* The dict written by "Save Inputs to JSON".
InputsDict(la, lo, inp) ==
    [Latitude |-> la, Longitude |-> lo, PV_Size |-> inp.peak_power_kw,
     Module_Type |-> inp.panel_type, System_Loss |-> inp.system_loss_pct,
     Mounting_Type |-> inp.mounting, Tilt |-> inp.tilt, Azimuth |-> inp.azimuth,
     DC_AC_Ratio |-> inp.inverter_ratio, Interval |-> inp.interval,
     Dataset |-> inp.dataset, Radius |-> inp.radius,
     Inverter_Efficiency |-> inp.inv]

\* StatusOk as "any 2xx status".
StatusOkAny2xx(status_code) == status_code >= 200 /\ status_code < 300

\* response.status_code == 200
StatusOk(status_code) == status_code = 200

\* HasOutputs as "outputs is not None".
HasOutputsNotNone(outputs) == outputs # Null

\* if outputs:
HasOutputs(outputs) == Truthy(outputs)

StationFields ==
    <<"City", "State", "Latitude", "Longitude", "Elevation", "Time Zone", "Dataset",
      "Distance (mi)">>

StationTable(station) ==
    [Field |-> StationFields,
     Value |-> <<Get(station, "city", ""), Get(station, "state", ""),
                 Get(station, "lat", ""), Get(station, "lon", ""),
                 Get(station, "elev", ""), Get(station, "time_zone", ""),
                 Get(station, "solar_resource_file", ""),
                 Get(station, "distance", "")>>]

\* SpecificYield cut off after two decimals instead of rounded.
SpecificYieldTruncated(ac_annual, peak_power_kw) ==
    LET q == RatDiv(ac_annual, peak_power_kw)
    IN  Rat((q.n * 100) \div q.d, 100)

\* round(ac_annual / peak_power_kw, 2)
SpecificYield(ac_annual, peak_power_kw) == RoundRat(RatDiv(ac_annual, peak_power_kw), 2)

\* The three metrics; the total is shown with no decimals.
Metrics(outputs, peak_power_kw) ==
    LET ac_annual == Get(outputs, "ac_annual", Rat(0, 1))
    IN  [ac_annual |-> ac_annual,
         total_ac_output |-> RoundRat(ac_annual, 0),
         specific_yield |-> SpecificYield(ac_annual, peak_power_kw),
         capacity_factor |-> RoundRat(Get(outputs, "capacity_factor", Rat(0, 1)), 2)]

MonthLabels ==
    <<"Jan", "Feb", "Mar", "Apr", "May", "Jun", "Jul", "Aug", "Sep", "Oct", "Nov", "Dec">>

\* MonthlyYield with the hourly table's three decimals.
MonthlyYieldThreeDecimals(kwh, peak_power_kw) == RoundRat(RatDiv(kwh, peak_power_kw), 3)

\* round(kwh / peak_power_kw, 2)
MonthlyYield(kwh, peak_power_kw) == RoundRat(RatDiv(kwh, peak_power_kw), 2)

\* monthly_df, for a series as long as the labels (pandas raises ValueError
\* for columns of different lengths).
MonthlyFrame(ac_monthly, peak_power_kw) ==
    [Month |-> MonthLabels,
     AC_Output_kWh |-> ac_monthly,
     Specific_Yield |-> [i \in 1..Len(ac_monthly) |->
                             MonthlyYield(ac_monthly[i], peak_power_kw)]]

\* HourlyTimestamps counting the hours from 1.
HourlyTimestampsFromOne(n, tz_offset) ==
    [i \in 1..n |-> DatetimePlusHours(Datetime(2025, 1, 1), i)]

\* [start_time + timedelta(hours=i) for i in range(n)]; tz_offset is read from
\* the response and not used.
HourlyTimestamps(n, tz_offset) ==
    [i \in 1..n |-> DatetimePlusHours(Datetime(2025, 1, 1), i - 1)]

\* ac_hourly / 1000
HourlyKWh(wh) == RatDiv(wh, Rat(1000, 1))

\* (ac_hourly / peak_power_kw).round(3)
HourlyYield(ac, peak_power_kw) == RoundRat(RatDiv(ac, peak_power_kw), 3)

\* df_hourly, for an AC and a DC series of one length.
HourlyFrame(ac_hourly, dc_hourly, peak_power_kw, tz_offset) ==
    [Timestamp |-> HourlyTimestamps(Len(ac_hourly), tz_offset),
     AC_Output_kWh |-> [i \in 1..Len(ac_hourly) |-> HourlyKWh(ac_hourly[i])],
     DC_Output_kWh |-> [i \in 1..Len(dc_hourly) |-> HourlyKWh(dc_hourly[i])],
     Specific_Yield |-> [i \in 1..Len(ac_hourly) |->
                             HourlyYield(ac_hourly[i], peak_power_kw)]]

\* df_hourly.head(48): the number of rows in the preview.
PreviewRows(n) == IF n < 48 THEN n ELSE 48

\* What a run has put on the page and offered for download.
EmptyView ==
    [messages |-> {}, geo_error |-> None, found |-> None, map |-> None,
     download_json |-> None, station_table |-> None, metrics |-> None,
     monthly_df |-> None, df_hourly |-> None, preview_rows |-> None,
     api_error |-> None, exception |-> None]

\* The rendering of the estimation response; an uncaught exception ends the run
\* with what was rendered before it.
RenderView(v, resp, inp) ==
    IF StatusOk(resp.status_code)
    THEN IF ~resp.is_json
         THEN [v EXCEPT !.exception = Some("JSONDecodeError")]
         ELSE
         LET data    == resp.data
             outputs == Get(data, "outputs", EmptyDict)
             station == Get(data, "station_info", EmptyDict)
             shown   == [v EXCEPT !.messages = @ \cup {"Simulation Complete!"},
                                  !.station_table = Some(StationTable(station)),
                                  !.metrics = Some(Metrics(outputs, inp.peak_power_kw))]
         IN  IF HasOutputs(outputs)
             THEN IF inp.interval = "monthly"
                  THEN IF "ac_monthly" \notin DOMAIN outputs
                       THEN [shown EXCEPT !.exception = Some("KeyError")]
                       ELSE IF Len(outputs.ac_monthly) # Len(MonthLabels)
                       THEN [shown EXCEPT !.exception = Some("ValueError")]
                       ELSE [shown EXCEPT !.monthly_df =
                                Some(MonthlyFrame(outputs.ac_monthly, inp.peak_power_kw))]
                  ELSE IF inp.interval = "hourly"
                  THEN LET ac_hourly == Get(outputs, "ac", << >>)
                           dc_hourly == Get(outputs, "dc", << >>)
                           tz_offset == Get(station, "time_zone", 0)
                       IN  [shown EXCEPT
                               !.df_hourly = Some(HourlyFrame(ac_hourly, dc_hourly,
                                                  inp.peak_power_kw, tz_offset)),
                               !.preview_rows = Some(PreviewRows(Len(ac_hourly)))]
                  ELSE shown
             ELSE [v EXCEPT !.messages = @ \cup {"No outputs returned."}]
    ELSE [v EXCEPT !.api_error =
              Some([status_code |-> resp.status_code, text |-> resp.text])]

\* response.json() is called once, in the success branch only.
JsonCallsOf(resp) == IF StatusOk(resp.status_code) THEN 1 ELSE 0

-----------------------------------------------------------------------------
(* The runs *)

\* Every name of the script is unbound when a run starts; location_mode and
\* address are "" until their widget is read.
RunStarts ==
    /\ location_mode' = ""
    /\ address' = ""
    /\ lat' = None
    /\ lon' = None
    /\ map_ready' = FALSE
    /\ geo_response' = None
    /\ inputs' = None
    /\ params' = None
    /\ response' = None
    /\ view' = EmptyView
    /\ geoCalls' = 0
    /\ estCalls' = 0
    /\ jsonCalls' = 0

runLocals == <<location_mode, address, lat, lon, map_ready, geo_response, inputs,
               params, response, view, geoCalls, estCalls, jsonCalls>>

\* st.rerun(): the run ends here and the script starts again.
Rerun ==
    /\ pc' = "begin"
    /\ trigger' = "rerun"
    /\ RunStarts

Init ==
    /\ session_state = EmptyDict
    /\ pc = "begin"
    /\ trigger = "load"
    /\ password = ""
    /\ location_mode = ""
    /\ address = ""
    /\ lat = None
    /\ lon = None
    /\ map_ready = FALSE
    /\ geo_response = None
    /\ inputs = None
    /\ params = None
    /\ response = None
    /\ view = EmptyView
    /\ geoCalls = 0
    /\ estCalls = 0
    /\ jsonCalls = 0

\* The user acts on a widget of the page on screen, which starts a run: the
\* password input when the page shows the login, otherwise the Logout, Save or
\* Run button or one of the location and parameter widgets.
UserInteraction ==
    /\ pc = "idle"
    /\ IF Authenticated
       THEN /\ trigger' \in {"logout", "widget", "save", "run"}
            /\ password' = password
       ELSE /\ trigger' = "password"
            /\ password' \in Passwords
    /\ pc' = "begin"
    /\ RunStarts
    /\ UNCHANGED session_state

\* The sidebar's login block.  The password input exists only on the login
\* page, so its value is gone once a run has not rendered it.
SidebarLogin ==
    /\ pc = "begin"
    /\ LET state == IF "authenticated" \notin DOMAIN session_state
                    THEN [authenticated |-> FALSE]
                    ELSE session_state
       IN  IF ~state.authenticated
           THEN IF CheckPassword(password)
                THEN /\ session_state' = [state EXCEPT !.authenticated = TRUE]
                     /\ Rerun
                     /\ UNCHANGED password
                ELSE /\ session_state' = state
                     /\ pc' = "access"
                     /\ UNCHANGED <<trigger, password>>
                     /\ UNCHANGED runLocals
           ELSE /\ password' = ""
                /\ IF trigger = "logout"
                   THEN /\ session_state' = [state EXCEPT !.authenticated = FALSE]
                        /\ Rerun
                   ELSE /\ session_state' = state
                        /\ pc' = "access"
                        /\ view' = [view EXCEPT !.messages = @ \cup {"Logged in"}]
                        /\ UNCHANGED trigger
                        /\ UNCHANGED <<location_mode, address, lat, lon, map_ready,
                                       geo_response, inputs, params, response,
                                       geoCalls, estCalls, jsonCalls>>

\* AccessGranted without the stop.
AccessAlwaysGranted(authenticated) == TRUE

\* Whether the access control lets the run continue.
AccessGranted(authenticated) == authenticated

\* if not st.session_state.authenticated: st.warning(...); st.stop()
AccessControl ==
    /\ pc = "access"
    /\ IF AccessGranted(Authenticated)
       THEN /\ pc' = "location"
            /\ UNCHANGED view
       ELSE /\ pc' = "idle"
            /\ view' = [view EXCEPT !.messages =
                           @ \cup {"Please enter the correct password to access the app."}]
    /\ UNCHANGED <<session_state, trigger, password, location_mode, address, lat, lon,
                   map_ready, geo_response, inputs, params, response, geoCalls,
                   estCalls, jsonCalls>>

\* The location block: the two number inputs, or the address input and the
\* geocoding request, then the map.
LocationInput ==
    /\ pc = "location"
    /\ \E mode \in LocationModes, addr \in Addresses :
          /\ mode = "Enter Coordinates" => addr = ""
          /\ location_mode' = mode
          /\ address' = addr
          /\ IF ShouldGeocode(mode, addr)
             THEN \E geo \in GeoResponses :
                     LET o == GeocodeOutcome(geo)
                     IN  /\ geo_response' = Some(geo)
                         /\ geoCalls' = geoCalls + 1
                         /\ lat' = o.lat
                         /\ lon' = o.lon
                         /\ map_ready' = o.map_ready
                         /\ view' = [view EXCEPT
                                !.messages = @ \cup o.messages,
                                !.geo_error = o.geo_error,
                                !.found = o.found,
                                !.map = IF o.map_ready
                                        THEN Some([lat |-> o.lat, lon |-> o.lon])
                                        ELSE None]
             ELSE IF mode = "Enter Coordinates"
             THEN \E la \in Latitudes, lo \in Longitudes :
                     /\ lat' = Some(la)
                     /\ lon' = Some(lo)
                     /\ map_ready' = TRUE
                     /\ view' = [view EXCEPT
                                    !.map = Some([lat |-> Some(la), lon |-> Some(lo)])]
                     /\ UNCHANGED <<geo_response, geoCalls>>
             ELSE UNCHANGED <<lat, lon, map_ready, view, geo_response, geoCalls>>
    /\ pc' = "params"
    /\ UNCHANGED <<session_state, trigger, password, inputs, params, response,
                   estCalls, jsonCalls>>

\* The eleven parameter widgets of the sidebar.
SystemParameters ==
    /\ pc = "params"
    /\ \E p \in ParameterSets, pk \in PeakPowers, iv \in Intervals :
          inputs' = Some([peak_power_kw |-> pk, interval |-> iv] @@ p)
    /\ pc' = "save"
    /\ UNCHANGED <<session_state, trigger, password, location_mode, address, lat, lon,
                   map_ready, geo_response, params, response, view, geoCalls,
                   estCalls, jsonCalls>>

\* The "Save Inputs to JSON" button and its download.
SaveInputs ==
    /\ pc = "save"
    /\ IF trigger = "save"
       THEN view' = [view EXCEPT !.download_json = Some(InputsDict(lat, lon, inputs[1]))]
       ELSE UNCHANGED view
    /\ pc' = "run"
    /\ UNCHANGED <<session_state, trigger, password, location_mode, address, lat, lon,
                   map_ready, geo_response, inputs, params, response, geoCalls,
                   estCalls, jsonCalls>>

\* The "Run Simulation" button: the request is built and sent, and the
\* response received.
RunSimulation ==
    /\ pc = "run"
    /\ IF RunGuard(trigger = "run", lat, lon)
       THEN /\ params' = Some(BuildParams(lat, lon, inputs[1]))
            /\ \E resp \in EstimationResponses(inputs[1].interval) :
                  response' = Some(resp)
            /\ estCalls' = estCalls + 1
            /\ pc' = "render"
       ELSE /\ pc' = "idle"
            /\ UNCHANGED <<params, response, estCalls>>
    /\ UNCHANGED <<session_state, trigger, password, location_mode, address, lat, lon,
                   map_ready, geo_response, inputs, view, geoCalls, jsonCalls>>

\* The handling of the estimation response, which ends the run.
RenderResult ==
    /\ pc = "render"
    /\ view' = RenderView(view, response[1], inputs[1])
    /\ jsonCalls' = jsonCalls + JsonCallsOf(response[1])
    /\ pc' = "idle"
    /\ UNCHANGED <<session_state, trigger, password, location_mode, address, lat, lon,
                   map_ready, geo_response, inputs, params, response, geoCalls,
                   estCalls>>

Next ==
    \/ UserInteraction
    \/ SidebarLogin
    \/ AccessControl
    \/ LocationInput
    \/ SystemParameters
    \/ SaveInputs
    \/ RunSimulation
    \/ RenderResult

Spec == Init /\ [][Next]_vars

-----------------------------------------------------------------------------
(* Properties *)

\* r >= 0 is a multiple of 10^-k and no multiple of 10^-k is nearer to
\* num / den (num >= 0, den > 0).
IsRounding(r, num, den, k) ==
    LET m     == Pow10(k)
        units == (r.n \div r.d) * m + ((r.n % r.d) * m) \div r.d
        below == (num * m) \div den
        rem   == (num * m) % den
    IN  /\ ((r.n % r.d) * m) % r.d = 0
        /\ \/ units = below /\ 2 * rem <= den
           \/ units = below + 1 /\ 2 * rem >= den

\* The run has sent the address lookup and got status 200 with an empty list.
ZeroMatches ==
    /\ location_mode = "Search by Address"
    /\ geo_response # None
    /\ geo_response[1].status_code = 200
    /\ geo_response[1].is_json
    /\ Len(geo_response[1].data) = 0

\* C1: in address mode, when the geocoding lookup returns status 200 with zero
\* matches, latitude and longitude stay None and the run sends no estimation
\* request, also when Run Simulation was clicked.
C1_ZeroMatchesNoEstimation ==
    ZeroMatches =>
        /\ lat = None
        /\ lon = None
        /\ estCalls = 0
        /\ params = None
        /\ response = None

C1_Witness ==
    /\ ZeroMatches
    /\ trigger = "run"
    /\ pc = "idle"
    /\ "Address not found." \in view.messages

\* The estimation service answered 200 with a JSON body that has no outputs
\* key or an empty outputs value.
EmptyOutputsResponse ==
    /\ response # None
    /\ response[1].status_code = 200
    /\ response[1].is_json
    /\ \/ "outputs" \notin DOMAIN response[1].data
       \/ response[1].data.outputs = Null
       \/ DOMAIN response[1].data.outputs = {}

\* C2: a 200 response without outputs, or with empty outputs, is rendered as
\* the "No outputs returned" error and nothing else: no station table, no
\* metrics, no monthly and no hourly table, no exception.
C2_EmptyOutputsOnlyError ==
    EmptyOutputsResponse =>
        /\ view.station_table = None
        /\ view.metrics = None
        /\ view.monthly_df = None
        /\ view.df_hourly = None
        /\ view.exception = None
        /\ "Simulation Complete!" \notin view.messages
        /\ pc = "idle" => "No outputs returned." \in view.messages

C2_Witness ==
    /\ EmptyOutputsResponse
    /\ "outputs" \in DOMAIN response[1].data
    /\ pc = "idle"
    /\ "No outputs returned." \in view.messages

ParamKeys ==
    {"api_key", "lat", "lon", "system_capacity", "module_type", "losses",
     "array_type", "tilt", "azimuth", "dc_ac_ratio", "timeframe", "format",
     "dataset", "radius", "gcr", "inv_eff", "use_wf_albedo"}

\* C3: the request parameters have exactly the seventeen keys of the service,
\* each user-supplied key carries the value collected from its widget, gcr is
\* 0.4 and use_wf_albedo is 1.
C3_ParamsCarryInputs ==
    params # None =>
        LET p == params[1]
            i == inputs[1]
        IN  /\ DOMAIN p = ParamKeys
            /\ p.lat = lat /\ lat # None
            /\ p.lon = lon /\ lon # None
            /\ p.system_capacity = i.peak_power_kw
            /\ p.module_type = i.panel_type
            /\ p.losses = i.system_loss_pct
            /\ p.array_type = i.mounting
            /\ p.tilt = i.tilt
            /\ p.azimuth = i.azimuth
            /\ p.dc_ac_ratio = i.inverter_ratio
            /\ p.timeframe = i.interval
            /\ p.dataset = i.dataset
            /\ p.radius = i.radius
            /\ p.inv_eff = i.inv
            /\ RatEq(p.gcr, Rat(2, 5))
            /\ p.use_wf_albedo = 1

C3_Witness ==
    /\ params # None
    /\ inputs[1].tilt = 60
    /\ inputs[1].azimuth = 360
    /\ inputs[1].peak_power_kw = Rat(100000, 10)
    /\ params[1].tilt = 60

\* C4 as stated: a run issues at most one outbound network call.
C4_AtMostOneCall == geoCalls + estCalls <= 1

\* C4, amended: a run issues at most one geocoding request and at most one
\* estimation request; it issues both only when Run Simulation is clicked in
\* address mode with a non-empty address, and in coordinate mode it issues no
\* geocoding request.
C4_AtMostOneCallPerService ==
    /\ geoCalls <= 1
    /\ estCalls <= 1
    /\ location_mode = "Enter Coordinates" => geoCalls = 0
    /\ (geoCalls = 1 /\ estCalls = 1) =>
           /\ trigger = "run"
           /\ location_mode = "Search by Address"
           /\ address # ""

C4_Witness ==
    /\ geoCalls = 1
    /\ estCalls = 1
    /\ pc = "idle"

\* Calendar arithmetic written out for the years the timestamps fall in.
DaysBefore2025Month ==
    <<0, 31, 59, 90, 120, 151, 181, 212, 243, 273, 304, 334>>

\* Hours from 2025-01-01 00:00 to a timestamp of 2025 or 2026.
HoursSinceStart(t) ==
    ((t.year - 2025) * 365 + DaysBefore2025Month[t.month] + (t.day - 1)) * 24 + t.hour

IsTimestamp(t) ==
    /\ t.year \in {2025, 2026}
    /\ t.month \in 1..12
    /\ t.day \in 1..(IF t.month = 2 THEN 28 ELSE IF t.month \in {4, 6, 9, 11} THEN 30 ELSE 31)
    /\ t.hour \in 0..23

\* b is the hour that follows a: the next hour of the same day, or hour 0 of
\* the next day.
IsNextHour(a, b) ==
    \/ /\ a.hour < 23
       /\ b = [a EXCEPT !.hour = a.hour + 1]
    \/ /\ a.hour = 23
       /\ b.hour = 0
       /\ \/ b = [a EXCEPT !.hour = 0, !.day = a.day + 1]
          \/ /\ b.day = 1
             /\ ~IsTimestamp([a EXCEPT !.day = a.day + 1])
             /\ \/ b.year = a.year /\ b.month = a.month + 1
                \/ b.year = a.year + 1 /\ b.month = 1 /\ a.month = 12

\* The hourly AC series of the response being rendered.
ResponseAc == Get(Get(response[1].data, "outputs", EmptyDict), "ac", << >>)

\* C5: the hourly table has one timestamp per element of the hourly AC series,
\* the i-th (from 0) being 2025-01-01 00:00 plus i hours; each timestamp is the
\* hour after the one before it, whatever time zone the station reports.
C5_HourlyTimestamps ==
    view.df_hourly # None =>
        LET ts == view.df_hourly[1].Timestamp
            n  == Len(ResponseAc)
        IN  /\ Len(ts) = n
            /\ \A i \in 1..n :
                  /\ IsTimestamp(ts[i])
                  /\ HoursSinceStart(ts[i]) = i - 1
            /\ \A i \in 1..(n - 1) :
                  /\ IsNextHour(ts[i], ts[i + 1])
                  /\ HoursSinceStart(ts[i]) < HoursSinceStart(ts[i + 1])

C5_Witness ==
    /\ view.df_hourly # None
    /\ Len(ResponseAc) > 31 * 24
    /\ Len(view.df_hourly[1].Timestamp) = Len(ResponseAc)
    /\ view.df_hourly[1].Timestamp[31 * 24 + 1] =
           [year |-> 2025, month |-> 2, day |-> 1, hour |-> 0]
    /\ "station_info" \in DOMAIN response[1].data
    /\ response[1].data.station_info.time_zone = -7

\* C6: the specific yield shown is the annual AC output (0 when the response
\* has none) divided by the installed capacity, rounded to 2 decimals; the
\* capacity is at least 0.1; capacity 5.0 and annual AC 6500 give 1300.0.
C6_SpecificYield ==
    view.metrics # None =>
        LET pk == inputs[1].peak_power_kw
            ac == Get(response[1].data.outputs, "ac_annual", Rat(0, 1))
            sy == view.metrics[1].specific_yield
        IN  /\ pk.n > 0 /\ pk.d > 0
            /\ ~RatLess(pk, Rat(1, 10))
            /\ IsRounding(sy, ac.n * pk.d, ac.d * pk.n, 2)
            /\ (RatEq(pk, Rat(5, 1)) /\ RatEq(ac, Rat(6500, 1))) => RatEq(sy, Rat(1300, 1))

C6_Witness ==
    /\ view.metrics # None
    /\ RatEq(inputs[1].peak_power_kw, Rat(5, 1))
    /\ "ac_annual" \in DOMAIN response[1].data.outputs
    /\ RatEq(response[1].data.outputs.ac_annual, Rat(6500, 1))
    /\ RatEq(view.metrics[1].specific_yield, Rat(1300, 1))

\* The run rendered outputs for a response without an annual AC value.
C6_WitnessMissingAnnual ==
    /\ view.metrics # None
    /\ "ac_annual" \notin DOMAIN response[1].data.outputs
    /\ view.metrics[1].specific_yield.n = 0

\* C7: the monthly table has 12 rows; row i holds the i-th of Jan..Dec, the
\* i-th value of the response's monthly series unchanged, and that value
\* divided by the installed capacity rounded to 2 decimals.
C7_MonthlyTable ==
    view.monthly_df # None =>
        LET df == view.monthly_df[1]
            ac == response[1].data.outputs.ac_monthly
            pk == inputs[1].peak_power_kw
        IN  /\ Len(ac) = 12
            /\ Len(df.Month) = 12
            /\ Len(df.AC_Output_kWh) = 12
            /\ Len(df.Specific_Yield) = 12
            /\ df.Month = <<"Jan", "Feb", "Mar", "Apr", "May", "Jun", "Jul", "Aug",
                            "Sep", "Oct", "Nov", "Dec">>
            /\ \A i \in 1..12 :
                  /\ df.AC_Output_kWh[i] = ac[i]
                  /\ IsRounding(df.Specific_Yield[i], ac[i].n * pk.d, ac[i].d * pk.n, 2)

C7_Witness ==
    /\ view.monthly_df # None
    /\ inputs[1].peak_power_kw = Rat(33, 10)
    /\ view.monthly_df[1].AC_Output_kWh[7] = Rat(63923, 100)
    /\ view.monthly_df[1].Specific_Yield[7] = Rat(19371, 100)

\* C8: in the hourly table, each row's specific yield is that row's AC Output
\* (kWh) value divided by the installed capacity (to the table's 3 decimals).
C8_HourlyYieldOfAcColumn ==
    view.df_hourly # None =>
        LET df == view.df_hourly[1]
            pk == inputs[1].peak_power_kw
        IN  \A i \in 1..Len(df.AC_Output_kWh) :
               IsRounding(df.Specific_Yield[i],
                          df.AC_Output_kWh[i].n * pk.d, df.AC_Output_kWh[i].d * pk.n, 3)

\* C9: the session starts unauthenticated; it becomes authenticated only by
\* the login block of a run whose password is the configured one, and
\* unauthenticated again only by the login block of a run started by Logout;
\* the access control ends every run it meets unauthenticated, so while the
\* session is unauthenticated no run has sent a request or read a parameter.
C9_Authentication ==
    /\ ~Authenticated
    /\ [][(~Authenticated /\ Authenticated') =>
              (pc = "begin" /\ password = "pushpower123")]_vars
    /\ [][(Authenticated /\ ~Authenticated') =>
              (pc = "begin" /\ trigger = "logout")]_vars
    /\ [][(pc = "access" /\ ~Authenticated) => pc' = "idle"]_vars
    /\ [][(geoCalls' > geoCalls \/ estCalls' > estCalls
             \/ (inputs' # inputs /\ inputs' # None)) => Authenticated]_vars
    /\ [](~Authenticated =>
              /\ pc \in {"begin", "access", "idle"}
              /\ geoCalls = 0 /\ estCalls = 0
              /\ geo_response = None /\ inputs = None
              /\ params = None /\ response = None)

\* A session that was logged out: the run restarted by Logout has stopped at
\* the access control.
C9_Witness ==
    /\ ~Authenticated
    /\ trigger = "rerun"
    /\ pc = "idle"
    /\ "Please enter the correct password to access the app." \in view.messages

\* C10: a response with a status other than 200 is rendered as one error
\* carrying the status code and the raw body, with no table and no metric;
\* the body is not parsed and exactly one estimation request was sent.
C10_FailureStatus ==
    (response # None /\ response[1].status_code # 200) =>
        /\ estCalls = 1
        /\ jsonCalls = 0
        /\ view.station_table = None
        /\ view.metrics = None
        /\ view.monthly_df = None
        /\ view.df_hourly = None
        /\ view.exception = None
        /\ view.messages \cap {"Simulation Complete!", "No outputs returned."} = {}
        /\ pc = "idle" =>
              view.api_error = Some([status_code |-> response[1].status_code,
                                     text |-> response[1].text])

C10_Witness ==
    /\ response # None
    /\ response[1].status_code = 204
    /\ pc = "idle"
    /\ view.api_error = Some([status_code |-> 204, text |-> ""])

=============================================================================
